---- MODULE Spec2Model ----
(***************************************************************************)
(* Model of CS_Valve_rankings.py: the Streamlit dashboard that fetches the *)
(* four Counter-Strike regional standings documents, parses the markdown   *)
(* table in each and renders one tab per region.                           *)
(*                                                                         *)
(* Text is modelled as a sequence of atoms.  An atom is an indivisible run *)
(* of characters: the delimiters "|", "(", ")", " " and the line feed are  *)
(* atoms of one character, a word (\w+) or a date (\d{4}-\d{2}-\d{2}) is   *)
(* one atom.  Every atom that ends the last cell of a data line is one     *)
(* character long, so that Python's [..:-1] removes exactly one atom.      *)
(***************************************************************************)
EXTENDS Integers, Sequences, FiniteSets, TLC

----------------------------------------------------------------------------
(* Bounds of the model *)

\* a document has at most MaxLines lines after its header and separator
MaxLines == 2

\* the clock advances at most MaxTicks times
MaxTicks == 1

\* requests.get is called at most MaxNet times in all
MaxNet == 5

\* at most MaxFaults of these calls end in anything but a 200 with a
\* well-formed document
MaxFaults == 1

----------------------------------------------------------------------------
(* Program constants *)

\* ttl=24*60*60 of @st.cache_data, in seconds
TTL == 86400

\* markdown_data[:1000] and markdown_data[-1000:]
ExcerptLen == 1000

\* LEADERBOARD_URLS.keys(), in insertion order
Regions == <<"Global", "Americas", "Asia", "Europe">>

\* LEADERBOARD_URLS
LEADERBOARD_URLS ==
  [r \in {"Global", "Americas", "Asia", "Europe"} |->
     CASE r = "Global"   -> "standings_global.md"
       [] r = "Americas" -> "standings_americas.md"
       [] r = "Asia"     -> "standings_asia.md"
       [] r = "Europe"   -> "standings_europe.md"]

Urls == {LEADERBOARD_URLS[r] : r \in DOMAIN LEADERBOARD_URLS}

\* the f-string prefix of the rewritten last cell
LinkPrefix ==
  "https://github.com/ValveSoftware/counter-strike_regional_standings/blob/main/"

NL == "\n"
SP == " "

\* the characters str.strip() removes, among the atoms of the model
Whitespace == {SP, NL}

\* atoms that \w+ matches
Words == {"Standings", "Regional", "for", "as", "of", "Europe", "Standing",
          "Team", "Link", "View", "V", "a", "b", "x", "A", "B", "C", "D",
          "1", "2", "3", "4", "junk",
          "Global", "Americas", "Asia"}

\* atoms that \d{4}-\d{2}-\d{2} matches
Dates == {"2024-03-15", "2024-01-10"}

----------------------------------------------------------------------------
(* Python string operations on atom sequences *)

Tail2(s, k) == SubSeq(s, k, Len(s))

\* str.lstrip()
RECURSIVE LStrip(_)
LStrip(s) ==
  IF s # <<>> /\ Head(s) \in Whitespace THEN LStrip(Tail(s)) ELSE s

\* str.rstrip()
RECURSIVE RStrip(_)
RStrip(s) ==
  IF s # <<>> /\ s[Len(s)] \in Whitespace
  THEN RStrip(SubSeq(s, 1, Len(s) - 1))
  ELSE s

\* str.strip()
Strip(s) == RStrip(LStrip(s))

\* str.find(c) + 1: the first position of atom c in s, 0 when absent
IndexOf(s, c) ==
  IF \E i \in 1..Len(s) : s[i] = c
  THEN CHOOSE i \in 1..Len(s) : s[i] = c /\ \A j \in 1..(i - 1) : s[j] # c
  ELSE 0

\* str.split(sep): always at least one fragment
RECURSIVE Split(_, _)
Split(s, sep) ==
  LET i == IndexOf(s, sep)
  IN  IF i = 0 THEN <<s>>
      ELSE <<SubSeq(s, 1, i - 1)>> \o Split(Tail2(s, i + 1), sep)

\* str.startswith(p)
StartsWith(s, p) == Len(s) >= Len(p) /\ SubSeq(s, 1, Len(p)) = p

\* list[1:-1]
Inner(l) == IF Len(l) <= 2 THEN <<>> ELSE SubSeq(l, 2, Len(l) - 1)

\* [cell.strip() for cell in line.split('|')[1:-1]]
Cells(line) ==
  LET frs == Inner(Split(line, "|"))
  IN  [i \in 1..Len(frs) |-> Strip(frs[i])]

\* s[:n]
Take(s, n) == IF Len(s) <= n THEN s ELSE SubSeq(s, 1, n)

\* s[-n:]
TakeLast(s, n) == IF Len(s) <= n THEN s ELSE SubSeq(s, Len(s) - n + 1, Len(s))

----------------------------------------------------------------------------
(* parse_markdown_table *)

\* the literal " as of " followed by the group (\d{4}-\d{2}-\d{2}), at k
AsOfDateAt(line, k) ==
  /\ k + 5 <= Len(line)
  /\ SubSeq(line, k, k + 4) = <<SP, "as", SP, "of", SP>>
  /\ line[k + 5] \in Dates

\* the positions right after a match, starting at i, of
\* (?:Standings|Regional Standings for \w+)
HeadEnds(line, i) ==
  {k \in 1..(Len(line) + 1) :
     \/ /\ k = i + 1
        /\ i <= Len(line)
        /\ line[i] = "Standings"
     \/ /\ k = i + 7
        /\ i + 6 <= Len(line)
        /\ SubSeq(line, i, i + 5) = <<"Regional", SP, "Standings", SP, "for", SP>>
        /\ line[i + 6] \in Words}

\* the start positions at which the whole pattern matches
MatchStarts(line) ==
  {i \in 1..Len(line) : \E k \in HeadEnds(line, i) : AsOfDateAt(line, k)}

\* re.search(...): group(1) of the leftmost match, or "Unknown"
ExtractTimestamp(line) ==
  IF MatchStarts(line) = {} THEN "Unknown"
  ELSE LET i == CHOOSE m \in MatchStarts(line) :
                  \A n \in MatchStarts(line) : m <= n
           k == CHOOSE e \in HeadEnds(line, i) : AsOfDateAt(line, e)
       IN  line[k + 5]

\* mutant of SplitLines: the text is split without being stripped first
SplitLinesNoStrip(markdown_text) == Split(markdown_text, NL)

\* lines = markdown_text.strip().split('\n')
SplitLines(markdown_text) == Split(Strip(markdown_text), NL)

\* the marker of line.startswith('| Standing |')
HeaderMarker == <<"|", SP, "Standing", SP, "|">>

\* next((i for i, line in enumerate(lines) if ...), None); 0 stands for None
HeaderIndex(lines) ==
  IF \E i \in 1..Len(lines) : StartsWith(lines[i], HeaderMarker)
  THEN CHOOSE i \in 1..Len(lines) :
         /\ StartsWith(lines[i], HeaderMarker)
         /\ \A j \in 1..(i - 1) : ~StartsWith(lines[j], HeaderMarker)
  ELSE 0

\* mutant of RenameLast: the last column keeps its name
RenameLastKept(headers) == headers

\* headers[-1] = "Details"
RenameLast(headers) == [headers EXCEPT ![Len(headers)] = <<"Details">>]

\* headers = [header.strip() for header in ...split('|')[1:-1]], renamed
Headers(line) == RenameLast(Cells(line))

\* line.startswith('|') and '|' in line
IsRowLine(line) == StartsWith(line, <<"|">>) /\ IndexOf(line, "|") # 0

\* mutant of KeepRow: the width of the row is not compared
KeepRowAnyWidth(row, headers) == row # <<>>

\* row and len(row) == len(headers)
KeepRow(row, headers) == row # <<>> /\ Len(row) = Len(headers)

\* detail_link[detail_link.index('(') + 1:-1]; the caller has found the '('
LinkTarget(detail_link) ==
  SubSeq(detail_link, IndexOf(detail_link, "(") + 1, Len(detail_link) - 1)

\* row[-1] = f"https://github.com/.../blob/main/{...}"
ConvertRow(row) ==
  [row EXCEPT ![Len(row)] = <<LinkPrefix>> \o LinkTarget(row[Len(row)])]

\* mutant of IndexRaises: str.find in place of str.index, which never raises
IndexRaisesNever(row) == FALSE

\* detail_link.index('(') raises ValueError when the '(' is absent
IndexRaises(row) == IndexOf(row[Len(row)], "(") = 0

\* the for loop over lines[header_index+2:], from line k on, data so far
RECURSIVE RowLoop(_, _, _, _)
RowLoop(lines, k, headers, data) ==
  IF k > Len(lines) THEN [raised |-> FALSE, data |-> data]
  ELSE IF ~IsRowLine(lines[k]) THEN RowLoop(lines, k + 1, headers, data)
  ELSE LET row == Cells(lines[k])
       IN  IF ~KeepRow(row, headers) THEN RowLoop(lines, k + 1, headers, data)
           ELSE IF IndexRaises(row) THEN [raised |-> TRUE, data |-> data]
           ELSE RowLoop(lines, k + 1, headers, Append(data, ConvertRow(row)))

\* mutant of NoData: the empty table is returned
NoDataNever(data) == FALSE

\* if not data:
NoData(data) == data = <<>>

NoHeaderMsg == "Could not find the header row in the Markdown table."
NoDataMsg == "No data rows found in the Markdown table."
IndexMsg == "substring not found"

Raise(msg) == [kind |-> "raise", msg |-> msg]

\* parse_markdown_table(markdown_text): (df, timestamp) or a ValueError
parse_markdown_table(markdown_text) ==
  LET lines == SplitLines(markdown_text)
      timestamp == ExtractTimestamp(lines[1])
      header_index == HeaderIndex(lines)
  IN  IF header_index = 0 THEN Raise(NoHeaderMsg)
      ELSE LET headers == Headers(lines[header_index])
               loop == RowLoop(lines, header_index + 2, headers, <<>>)
           IN  IF loop.raised THEN Raise(IndexMsg)
               ELSE IF NoData(loop.data) THEN Raise(NoDataMsg)
               ELSE [kind |-> "ok",
                     columns |-> headers,
                     data |-> loop.data,
                     timestamp |-> timestamp]

----------------------------------------------------------------------------
(* The documents the parser is checked on *)

TsLine1 == <<"Standings", SP, "as", SP, "of", SP, "2024-03-15">>
TsLine2 == <<"Regional", SP, "Standings", SP, "for", SP, "Europe", SP,
             "as", SP, "of", SP, "2024-01-10">>
Hdr3 == <<"|", SP, "Standing", SP, "|", SP, "Team", SP, "|", SP, "Link", SP, "|">>
Hdr1 == <<"|", SP, "Standing", SP, "|">>
SepLine == <<"|", "---", "|", "---", "|", "---", "|">>
RowOK == <<"|", SP, "1", SP, "|", SP, "A", SP, "|", SP,
           "View", "(", "standings/detail1.md", ")", SP, "|">>
RowNoParen == <<"|", SP, "2", SP, "|", SP, "B", SP, "|", SP, "x", SP, "|">>
RowShort == <<"|", SP, "3", SP, "|", SP, "C", SP, "|">>
RowTrail == <<"|", SP, "4", SP, "|", SP, "D", SP, "|", SP,
              "V", "(", "a", ")", "b", SP, "|">>
Row1 == <<"|", SP, "V", "(", "a", ")", SP, "|">>
JunkLine == <<"junk", SP, "|", SP, "1", SP, "|", SP, "A", SP, "|", SP, "x", SP, "|">>

\* what precedes the table: nothing, a title line, blank lines before it
Preambles == {<<>>, <<TsLine1>>, <<TsLine2>>, <<<<>>, TsLine1>>,
              <<<<SP>>, TsLine2>>, <<JunkLine>>}

\* the header line of the table and its separator line, when there are any
HeaderLines == {<<>>, <<Hdr3>>, <<Hdr3, SepLine>>, <<Hdr1>>, <<Hdr1, SepLine>>}

\* the lines that follow
BodyLines == {RowOK, RowNoParen, RowShort, RowTrail, Row1, JunkLine, Hdr3}

\* '\n'.join(ls)
RECURSIVE JoinLines(_)
JoinLines(ls) ==
  IF ls = <<>> THEN <<>>
  ELSE IF Len(ls) = 1 THEN ls[1]
  ELSE ls[1] \o <<NL>> \o JoinLines(Tail(ls))

Docs ==
  {JoinLines(pre \o hdr \o body) :
     pre \in Preambles, hdr \in HeaderLines,
     body \in UNION {[1..n -> BodyLines] : n \in 0..MaxLines}}

----------------------------------------------------------------------------
(* display_leaderboard, after the fetch *)

\* height=35*len(df)+38
RowHeight == 35
FixedHeight == 38

\* the value fetch_leaderboard_data returns: None or response.text
NoneVal == [isNone |-> TRUE, text |-> <<>>]
Some(t) == [isNone |-> FALSE, text |-> t]

\* if markdown_data:
Truthy(v) == ~v.isNone /\ v.text # <<>>

\* st.error(f"Failed to fetch data from {url}")
FetchErrorElement(url) ==
  [kind |-> "error", msg |-> <<"Failed to fetch data from ", url>>]

\* the try branch, lines 68-77: the table and the two captions
TableElements(r, t) ==
  <<[kind |-> "dataframe", columns |-> r.columns, data |-> r.data,
     height |-> RowHeight * Len(r.data) + FixedHeight],
    [kind |-> "caption", label |-> "Standings as of: ", value |-> r.timestamp],
    [kind |-> "caption", label |-> "Last fetched: ", at |-> t]>>

\* the except branch, lines 79-83: the error and the two excerpts
ParseErrorElements(r, markdown_data) ==
  <<[kind |-> "error", msg |-> <<"Error parsing the leaderboard data: ", r.msg>>],
    [kind |-> "text", label |-> "Raw markdown data (first 1000 characters):"],
    [kind |-> "code", body |-> Take(markdown_data, ExcerptLen)],
    [kind |-> "text", label |-> "Last 1000 characters of markdown data:"],
    [kind |-> "code", body |-> TakeLast(markdown_data, ExcerptLen)]>>

\* lines 63-83: what display_leaderboard renders for the fetched value v at time t
RenderFetched(v, t) ==
  IF ~Truthy(v) THEN <<>>
  ELSE LET r == parse_markdown_table(v.text)
       IN  IF r.kind = "ok" THEN TableElements(r, t)
           ELSE ParseErrorElements(r, v.text)

\* the states of the tab's pipeline that lines 63-83 pass through
PathFetched(v) ==
  IF ~Truthy(v) THEN <<>>
  ELSE IF parse_markdown_table(v.text).kind = "ok"
       THEN <<"Fetched", "Parsed", "Rendered">>
       ELSE <<"Fetched", "ParseFailed", "ErrorDisplayed">>

----------------------------------------------------------------------------
(* State *)

VARIABLES
  doc,       \* the text handed to the parser (parser specification)
  pc,        \* "start", "parsed" or "shown" (parser specification)
  result,    \* what parse_markdown_table returned or raised
  tabView,   \* what display_leaderboard rendered for doc
  cache,     \* the st.cache_data store of fetch_leaderboard_data, by url
  now,       \* the clock, in seconds
  ticks,     \* how often the clock has advanced
  netCalls,  \* the number of requests.get calls, by url
  faults,    \* the number of requests.get calls that went wrong
  last,      \* the latest fetch_leaderboard_data call
  pos,       \* main()'s loop: the index of the next tab, 0 outside a run
  aborted,   \* the run ended with an uncaught exception
  view,      \* the elements in each tab, in this run
  path       \* the pipeline states each tab went through, in this run

parseVars == <<doc, pc, result, tabView>>
renderVars == <<cache, now, ticks, netCalls, faults, last, pos, aborted, view, path>>
vars == <<doc, pc, result, tabView, cache, now, ticks, netCalls, faults, last,
          pos, aborted, view, path>>

RegionSet == {Regions[i] : i \in 1..Len(Regions)}

Absent == [present |-> FALSE, value |-> NoneVal, at |-> 0]

NoCall == [url |-> "none", ret |-> NoneVal, net |-> FALSE, raised |-> FALSE,
           prior |-> Absent, at |-> 0]

RenderInit ==
  /\ cache = [u \in Urls |-> Absent]
  /\ now = 0
  /\ ticks = 0
  /\ netCalls = [u \in Urls |-> 0]
  /\ faults = 0
  /\ last = NoCall
  /\ pos = 0
  /\ aborted = FALSE
  /\ view = [r \in RegionSet |-> <<>>]
  /\ path = [r \in RegionSet |-> <<>>]

----------------------------------------------------------------------------
(* The parser specification: parse_markdown_table and display_leaderboard  *)
(* applied to every document of Docs                                       *)

ParseInit ==
  /\ doc \in Docs
  /\ pc = "start"
  /\ result = Raise("")
  /\ tabView = <<>>
  /\ RenderInit

\* a call parse_markdown_table(doc)
ParseCall ==
  /\ pc = "start"
  /\ result' = parse_markdown_table(doc)
  /\ pc' = "parsed"
  /\ UNCHANGED <<doc, tabView>>
  /\ UNCHANGED renderVars

\* display_leaderboard with doc as the fetched text
DisplayCall ==
  /\ pc = "start"
  /\ tabView' = RenderFetched(Some(doc), now)
  /\ result' = IF Truthy(Some(doc)) THEN parse_markdown_table(doc) ELSE result
  /\ pc' = "shown"
  /\ UNCHANGED doc
  /\ UNCHANGED renderVars

ParseNext == ParseCall \/ DisplayCall

ParseSpec == ParseInit /\ [][ParseNext]_vars

----------------------------------------------------------------------------
(* The render specification: main(), display_leaderboard and the cached    *)
(* fetch_leaderboard_data, over page renders and the passing of time       *)

\* the documents the remote source serves for a region
TitleOf(r) == <<"Regional", SP, "Standings", SP, "for", SP, r, SP,
                "as", SP, "of", SP, "2024-01-10">>
RowOf(r) == <<"|", SP, "1", SP, "|", SP, r, SP, "|", SP,
              "View", "(", "standings/detail1.md", ")", SP, "|">>
GoodDoc(r) == JoinLines(<<TitleOf(r), Hdr3, SepLine, RowOf(r)>>)
BadDoc(r) == JoinLines(<<TitleOf(r), Hdr3, SepLine, RowOf(r), RowNoParen>>)
EmptyDoc == <<>>

\* what requests.get(url) can do: answer with a status and a body, or raise
Outcomes(r) ==
  {[kind |-> "response", status |-> 200, text |-> b] :
     b \in {GoodDoc(r), BadDoc(r), EmptyDoc}}
  \cup {[kind |-> "response", status |-> 503, text |-> <<"unavailable">>]}
  \cup {[kind |-> "exception", status |-> 0, text |-> <<>>]}

\* the outcomes counted as faults of the remote source
IsFault(r, o) == ~(o.kind = "response" /\ o.status = 200 /\ o.text = GoodDoc(r))

\* mutant of Fresh: an entry is still served at the age of exactly ttl
FreshInclusive(e, t) == e.present /\ t <= e.at + TTL

\* @st.cache_data(ttl=24*60*60): an entry is served while younger than ttl
Fresh(e, t) == e.present /\ t < e.at + TTL

\* lines 18-23, the body of fetch_leaderboard_data: the value returned
FetchReturn(o) == IF o.status = 200 THEN Some(o.text) ELSE NoneVal

\* @st.cache_data stores whatever the function returns, with the time
Stored(o, t) == [present |-> TRUE, value |-> FetchReturn(o), at |-> t]

\* the elements fetch_leaderboard_data emits (replayed on a cache hit)
FetchElements(v, url) == IF v.isNone THEN <<FetchErrorElement(url)>> ELSE <<>>

\* the states of the pipeline up to the end of the fetch
PathFetch(v) == IF v.isNone THEN <<"Start", "FetchFailed", "ErrorDisplayed">>
                ELSE <<"Start">>

\* the number of requests.get calls so far
TotalNet ==
  netCalls["standings_global.md"] + netCalls["standings_americas.md"]
    + netCalls["standings_asia.md"] + netCalls["standings_europe.md"]

\* how far time moves between two steps
TickSteps == {TTL - 1, TTL}

\* time passes
Tick ==
  /\ ticks < MaxTicks
  /\ \E d \in TickSteps : now' = now + d
  /\ ticks' = ticks + 1
  /\ UNCHANGED <<cache, netCalls, faults, last, pos, aborted, view, path>>
  /\ UNCHANGED parseVars

\* main() starts: a page render; st.tabs creates the four empty tabs
StartPass ==
  /\ pos = 0
  /\ pos' = 1
  /\ aborted' = FALSE
  /\ view' = [r \in RegionSet |-> <<>>]
  /\ path' = [r \in RegionSet |-> <<>>]
  /\ UNCHANGED <<cache, now, ticks, netCalls, faults, last>>
  /\ UNCHANGED parseVars

\* the next tab of main()'s loop
NextPos(i) == IF i = Len(Regions) THEN 0 ELSE i + 1

\* display_leaderboard(Regions[pos]) with the fetch served by the cache
DisplayHit ==
  /\ pos \in 1..Len(Regions)
  /\ LET r == Regions[pos]
         u == LEADERBOARD_URLS[r]
         e == cache[u]
     IN  /\ Fresh(e, now)
         /\ last' = [url |-> u, ret |-> e.value, net |-> FALSE, raised |-> FALSE,
                     prior |-> e, at |-> now]
         /\ view' = [view EXCEPT ![r] =
                       FetchElements(e.value, u) \o RenderFetched(e.value, now)]
         /\ path' = [path EXCEPT ![r] = PathFetch(e.value) \o PathFetched(e.value)]
         /\ pos' = NextPos(pos)
  /\ UNCHANGED <<cache, now, ticks, netCalls, faults, aborted>>
  /\ UNCHANGED parseVars

\* display_leaderboard(Regions[pos]) with a network call that answers
DisplayMiss ==
  /\ pos \in 1..Len(Regions)
  /\ LET r == Regions[pos]
         u == LEADERBOARD_URLS[r]
         e == cache[u]
     IN  /\ ~Fresh(e, now)
         /\ TotalNet < MaxNet
         /\ \E o \in Outcomes(r) :
              /\ o.kind = "response"
              /\ IsFault(r, o) => faults < MaxFaults
              /\ faults' = IF IsFault(r, o) THEN faults + 1 ELSE faults
              /\ cache' = [cache EXCEPT ![u] = Stored(o, now)]
              /\ netCalls' = [netCalls EXCEPT ![u] = @ + 1]
              /\ last' = [url |-> u, ret |-> FetchReturn(o), net |-> TRUE,
                          raised |-> FALSE, prior |-> e, at |-> now]
              /\ view' = [view EXCEPT ![r] =
                            FetchElements(FetchReturn(o), u)
                              \o RenderFetched(FetchReturn(o), now)]
              /\ path' = [path EXCEPT ![r] =
                            PathFetch(FetchReturn(o)) \o PathFetched(FetchReturn(o))]
         /\ pos' = NextPos(pos)
  /\ UNCHANGED <<now, ticks, aborted>>
  /\ UNCHANGED parseVars

\* display_leaderboard(Regions[pos]) with a network call that raises: nothing
\* catches the exception, it ends main(), the page shows the exception
DisplayRaise ==
  /\ pos \in 1..Len(Regions)
  /\ LET r == Regions[pos]
         u == LEADERBOARD_URLS[r]
         e == cache[u]
     IN  /\ ~Fresh(e, now)
         /\ TotalNet < MaxNet
         /\ \E o \in Outcomes(r) :
              /\ o.kind = "exception"
              /\ faults < MaxFaults
              /\ faults' = faults + 1
              /\ cache' = [cache EXCEPT ![u] = Absent]
              /\ netCalls' = [netCalls EXCEPT ![u] = @ + 1]
              /\ last' = [url |-> u, ret |-> NoneVal, net |-> TRUE,
                          raised |-> TRUE, prior |-> e, at |-> now]
              /\ view' = [view EXCEPT ![r] = <<[kind |-> "exception"]>>]
              /\ path' = [path EXCEPT ![r] = <<"Start", "Raised">>]
         /\ pos' = 0
         /\ aborted' = TRUE
  /\ UNCHANGED <<now, ticks>>
  /\ UNCHANGED parseVars

Init ==
  /\ doc = <<>>
  /\ pc = "idle"
  /\ result = Raise("")
  /\ tabView = <<>>
  /\ RenderInit

Next == Tick \/ StartPass \/ DisplayHit \/ DisplayMiss \/ DisplayRaise

Spec == Init /\ [][Next]_vars

----------------------------------------------------------------------------
(* The document of the parser specification, as the claims describe it *)

\* the lines of the document, without the blank lines around it
ClaimLines == Split(Strip(doc), NL)

\* the lines of the raw document
RawLines == Split(doc, NL)

\* the first line that starts with the header marker, 0 when there is none
ClaimHeader == HeaderIndex(ClaimLines)

\* the number of cells between the pipes of a line
Width(line) == Len(Inner(Split(line, "|")))

HeaderWidth == Width(ClaimLines[ClaimHeader])

\* the numbers of the lines after the separator line
DataLineNos == (ClaimHeader + 2)..Len(ClaimLines)

IsRow(k) == StartsWith(ClaimLines[k], <<"|">>)

\* line k is a row as wide as the header
Matching(k) == IsRow(k) /\ Width(ClaimLines[k]) = HeaderWidth

MatchingNos == {k \in DataLineNos : Matching(k)}

\* the number of the i-th row as wide as the header
NthMatching(i) ==
  CHOOSE k \in MatchingNos : Cardinality({j \in MatchingNos : j <= k}) = i

\* the trimmed last cell of line k
LastCell(k) ==
  LET frs == Split(ClaimLines[k], "|") IN Strip(frs[Len(frs) - 1])

HasAtom(c, a) == \E i \in 1..Len(c) : c[i] = a

FirstPos(c, a) == CHOOSE i \in 1..Len(c) : c[i] = a /\ \A j \in 1..(i - 1) : c[j] # a
LastPos(c, a) ==
  CHOOSE i \in 1..Len(c) : c[i] = a /\ \A j \in (i + 1)..Len(c) : c[j] # a

\* the text between the first '(' and the last ')' of cell c
Between(c) == SubSeq(c, FirstPos(c, "(") + 1, LastPos(c, ")") - 1)

\* the date a matching title line states
DateIn(line) == CHOOSE d \in Dates : HasAtom(line, d)

\* the table is valid: a header, a row as wide as it, and a link in each
ValidTable ==
  /\ ClaimHeader # 0
  /\ MatchingNos # {}
  /\ \A k \in MatchingNos : HasAtom(LastCell(k), "(")

\* some row as wide as the header has no '(' in its last cell
SomeRowWithoutParen ==
  /\ ClaimHeader # 0
  /\ \E k \in MatchingNos : ~HasAtom(LastCell(k), "(")

Kinds(v) == [i \in 1..Len(v) |-> v[i].kind]

----------------------------------------------------------------------------
(* Claims about parse_markdown_table *)

\* C3: every row of a returned table has as many cells as there are column
\* names; the rows returned are exactly the rows as wide as the header, so a
\* row of another width never appears; and the parser raises on a row only
\* when a row as wide as the header lacks its '(': a row of another width is
\* skipped before the link is rewritten and never makes the parser raise.
C3_RowWidth ==
  pc = "parsed" =>
    /\ result.kind = "ok" =>
         /\ \A i \in 1..Len(result.data) :
              Len(result.data[i]) = Len(result.columns)
         /\ Len(result.data) = Cardinality(MatchingNos)
    /\ (result.kind = "raise" /\ result.msg = IndexMsg) => SomeRowWithoutParen

\* C3 witness: a table is returned although a row of another width follows
\* the separator
C3_Witness ==
  /\ pc = "parsed"
  /\ result.kind = "ok"
  /\ \E k \in DataLineNos : IsRow(k) /\ Width(ClaimLines[k]) # HeaderWidth

\* C4 (as claimed): the last cell of every returned row whose original last
\* cell holds a '(' and a ')' is the prefix followed by the text between the
\* first '(' and the last ')' of the original cell.
C4_LinkBetweenParens ==
  (pc = "parsed" /\ result.kind = "ok") =>
    \A i \in 1..Len(result.data) :
      LET c == LastCell(NthMatching(i))
      IN  (HasAtom(c, "(") /\ HasAtom(c, ")")) =>
            result.data[i][Len(result.data[i])] = <<LinkPrefix>> \o Between(c)

\* C5 (as claimed): the timestamp is decided by the first line of the raw
\* document: "Unknown" when that line does not match, a blank or empty first
\* line included, and the date of that line when it matches.
C5_FirstRawLine ==
  (pc = "parsed" /\ result.kind = "ok") =>
    result.timestamp =
      IF MatchStarts(RawLines[1]) = {} THEN "Unknown" ELSE DateIn(RawLines[1])

\* C5 (amended): the timestamp is decided by the first line of the document
\* after the whitespace and blank lines around it are stripped: "Unknown" when
\* that line does not match, the date captured in it when it does; the
\* extraction never fails, so a document with a valid table parses whatever
\* its first line is.
C5_FirstStrippedLine ==
  pc = "parsed" =>
    /\ ValidTable => result.kind = "ok"
    /\ result.kind = "ok" =>
         result.timestamp =
           IF MatchStarts(ClaimLines[1]) = {} THEN "Unknown"
           ELSE DateIn(ClaimLines[1])

\* C5 witness: a table is returned with the timestamp "Unknown" for a
\* document whose first line matches neither pattern
C5_Witness ==
  /\ pc = "parsed"
  /\ result.kind = "ok"
  /\ MatchStarts(ClaimLines[1]) = {}
  /\ result.timestamp = "Unknown"

\* C6: with a header line, when no line after the separator is a row as wide
\* as the header (there is none, the header is the last line, or each is
\* malformed or of another width), the parser raises "No data rows found" and
\* returns no table.
C6_NoDataRows ==
  (pc = "parsed" /\ ClaimHeader # 0 /\ MatchingNos = {}) =>
    result = Raise(NoDataMsg)

\* C6 witness: lines follow the separator, none is a row as wide as the
\* header, and the parser has raised "No data rows found"
C6_Witness ==
  /\ pc = "parsed"
  /\ ClaimHeader # 0
  /\ DataLineNos # {}
  /\ MatchingNos = {}
  /\ result = Raise(NoDataMsg)

\* C7: in every returned table the last column is named "Details", and the
\* other columns are the trimmed fragments of the header line, in order.
C7_DetailsColumn ==
  (pc = "parsed" /\ result.kind = "ok") =>
    LET frs == Split(ClaimLines[ClaimHeader], "|")
        n == Len(frs) - 2
    IN  /\ Len(result.columns) = n
        /\ result.columns[n] = <<"Details">>
        /\ \A i \in 1..(n - 1) : result.columns[i] = Strip(frs[i + 1])

\* C7 witness: a table is returned for a header line whose only column is
\* Standing
C7_Witness ==
  /\ pc = "parsed"
  /\ result.kind = "ok"
  /\ ClaimLines[ClaimHeader] = Hdr1
  /\ result.columns = <<<<"Details">>>>

\* C10: when a line after the separator is a row as wide as the header whose
\* last cell has no '(', the parser raises and returns no table, and
\* display_leaderboard shows the parse error with the first and the last 1000
\* characters of the text, and no table.
C10_RowWithoutParen ==
  SomeRowWithoutParen =>
    /\ pc = "parsed" => result = Raise(IndexMsg)
    /\ pc = "shown" =>
         /\ Kinds(tabView) = <<"error", "text", "code", "text", "code">>
         /\ tabView[1].msg = <<"Error parsing the leaderboard data: ", IndexMsg>>
         /\ tabView[3].body = Take(doc, ExcerptLen)
         /\ tabView[5].body = TakeLast(doc, ExcerptLen)

\* C10 witness: the error is shown for a document that also has a valid row
C10_Witness ==
  /\ pc = "shown"
  /\ SomeRowWithoutParen
  /\ \E k \in MatchingNos : HasAtom(LastCell(k), "(")
  /\ Kinds(tabView) = <<"error", "text", "code", "text", "code">>

----------------------------------------------------------------------------
(* Claims about the render pass and the fetch cache *)

\* a run of main() has ended: the first tab is always reached
PassEnded == pos = 0 /\ path["Global"] # <<>>

HasKind(v, k) == \E i \in 1..Len(v) : v[i].kind = k

\* the tab's pipeline failed: the fetch or the parse
TabFailed(r) ==
  \E i \in 1..Len(path[r]) : path[r][i] \in {"FetchFailed", "ParseFailed", "Raised"}

\* the table in the tab, when there is one, is the one of region r
OwnResult(r) ==
  \A i \in 1..Len(view[r]) :
    view[r][i].kind = "dataframe" => view[r][i].data[1][2] = <<r>>

\* C1 (as claimed): when a run of main() has ended, display_leaderboard has
\* been executed for each of the four tabs, whatever failed in an earlier
\* tab; a tab whose pipeline failed shows an error, and a table shown in a
\* tab is the one of its own region.
C1_TabIsolation ==
  PassEnded =>
    \A r \in RegionSet :
      /\ path[r] # <<>>
      /\ TabFailed(r) => (HasKind(view[r], "error") \/ HasKind(view[r], "exception"))
      /\ OwnResult(r)

\* a step of main()'s loop: display_leaderboard is called for tab i
DisplayStep(i) == pos = i /\ pos' # pos

\* C2: a call of fetch_leaderboard_data for a url whose text was fetched less
\* than 24 hours ago returns that text with no network call and leaves the
\* cache as it is; a call 24 hours or more after the fetch issues exactly one
\* network call and replaces the entry (no entry older than the call is left
\* for the url); the text a call returns was fetched less than 24 hours ago;
\* the entries and the call counts of the other urls do not change.
C2_CacheWindow ==
  [][\A i \in 1..Len(Regions) :
       DisplayStep(i) =>
         LET u == LEADERBOARD_URLS[Regions[i]]
             e == cache[u]
             hasText == e.present /\ ~e.value.isNone
         IN  /\ (hasText /\ now - e.at < TTL) =>
                  /\ netCalls' = netCalls
                  /\ cache' = cache
                  /\ last'.ret = e.value
             /\ (hasText /\ now - e.at >= TTL) =>
                  /\ netCalls'[u] = netCalls[u] + 1
                  /\ cache'[u] # e
                  /\ cache'[u].present => cache'[u].at = now
             /\ ~last'.ret.isNone =>
                  /\ cache'[u].present
                  /\ cache'[u].value = last'.ret
                  /\ now - cache'[u].at < TTL
             /\ \A w \in Urls \ {u} :
                  cache'[w] = cache[w] /\ netCalls'[w] = netCalls[w]]_vars

\* C2 witness: a call made 24 hours or more after the text of its url was
\* fetched has issued a network call, while the text of another url, fetched
\* less than 24 hours ago, is still stored
C2_Witness ==
  /\ last.url # "none"
  /\ last.net
  /\ last.prior.present
  /\ ~last.prior.value.isNone
  /\ last.at - last.prior.at >= TTL
  /\ \E w \in Urls \ {last.url} :
       /\ cache[w].present
       /\ ~cache[w].value.isNone
       /\ now - cache[w].at < TTL

\* C8 (as claimed): a retrieval that ends with the absent value has issued an
\* HTTP GET: the failed outcome of an earlier retrieval is never reused.
C8_FailureNotReused ==
  (last.url # "none" /\ last.ret.isNone /\ ~last.raised) => last.net

ThreePaths ==
  {<<"Start", "Fetched", "Parsed", "Rendered">>,
   <<"Start", "Fetched", "ParseFailed", "ErrorDisplayed">>,
   <<"Start", "FetchFailed", "ErrorDisplayed">>}

\* the tab shows a table with both caption lines
ShowsTable(v) == Kinds(v) = <<"dataframe", "caption", "caption">>

\* the tab shows an error message
ShowsError(v) == HasKind(v, "error")

\* C9 (as claimed): a tab whose fetch got an answer (a non-200 status, or a
\* 200 with any body) follows one of the three paths and ends showing either
\* the table with both captions or an error: never nothing, never both.
C9_TabOutcome ==
  \A r \in RegionSet :
    (path[r] # <<>> /\ path[r] # <<"Start", "Raised">>) =>
      /\ path[r] \in ThreePaths
      /\ ShowsTable(view[r]) # ShowsError(view[r])
      /\ ~(HasKind(view[r], "dataframe") /\ HasKind(view[r], "error"))

====
